---- MODULE Spec2Model ----
(***************************************************************************)
(* build_cnext.py: the c-next pre-build script for PlatformIO.             *)
(*                                                                         *)
(* The script compiles the TypeScript build script (stage 1, "tsc"), runs  *)
(* the compiled script under node (stage 2, "node", the transpiler) and    *)
(* copies generated/*.cpp and generated/*.h into src/.  The state below is *)
(* the two directories, the script's local variables, its position in      *)
(* main(), the child process it waits for and what it has done so far.     *)
(* The print calls are taken to succeed; the exceptions modelled are those  *)
(* of subprocess.run and of shutil.copy2.                                   *)
(***************************************************************************)
EXTENDS Integers, Sequences, FiniteSets, TLC

VARIABLES
    pc,         \* position in main(); "done" once the process has exited
    src,        \* the directory src/ : file name -> file (NoFile when absent)
    generated,  \* the directory generated/ : [exists, files]
    now,        \* the file system's clock
    success,    \* main's local "success"
    stdout,     \* main's local "stdout"
    stderr,     \* main's local "stderr"
    exc,        \* the exception being raised, "none" when there is none
    status,     \* the exit status of the process, -1 while it runs
    patterns,   \* the patterns the loop of line 76 has still to take
    todo,       \* the paths the loop of line 77 has still to take
    events,     \* what the script has done in this run, in order
    env,        \* what the environment answered in this run, in order
    src0,       \* src/ as it was when this run started
    run,        \* the number of this run of the script
    prev,       \* env of the run before this one
    prevSrc,    \* src/ as the run before this one left it
    verdict     \* what check_if_transpilation_needed() returned, <<>> before

vars == <<pc, src, generated, now, success, stdout, stderr, exc, status,
          patterns, todo, events, env, src0, run, prev, prevSrc, verdict>>

(***************************************************************************)
(* Bounds.                                                                 *)
(***************************************************************************)
MaxContent == 2     \* file contents are 1..MaxContent
MaxTime == 2        \* the clock and modification times are 0..MaxTime
MaxRuns == 2        \* runs of the script in succession (SpecRerun)
MaxEdits == 1       \* times the user saves a source artifact (SpecBuild)

Contents == 1..MaxContent
Times == 0..MaxTime

(***************************************************************************)
(* Files and directories.                                                  *)
(***************************************************************************)
Names == {"m.cn", "n.cnm", "a.cpp", "c.cpp", "b.h", "x.txt"}

\* The suffix a glob pattern "*.<suffix>" matches.
Suffix ==
    [n \in Names |->
        CASE n = "m.cn" -> "cn"
          [] n = "n.cnm" -> "cnm"
          [] n = "a.cpp" -> "cpp"
          [] n = "c.cpp" -> "cpp"
          [] n = "b.h" -> "h"
          [] OTHER -> "txt"]

File(c, t) == [content |-> c, mtime |-> t]
NoFile == [content |-> 0, mtime |-> 0]
\* What a copy that failed while writing leaves behind.
Truncated(t) == [content |-> -1, mtime |-> t]

EmptyDir == [n \in Names |-> NoFile]
NoDir == [exists |-> FALSE, files |-> EmptyDir]

\* The directories whose files are among names, each one of files.
Dirs(names, files) ==
    {d \in [Names -> files \cup {NoFile}] : \A n \in Names \ names : d[n] = NoFile}

\* Path(dir).glob("*.<suffix>")
glob(dir, suffix) == {n \in Names : dir[n] # NoFile /\ Suffix[n] = suffix}

Max(S) == CHOOSE x \in S : \A y \in S : x >= y
Min(S) == CHOOSE x \in S : \A y \in S : x =< y

\* The orders in which a directory scan may yield the paths of S.
Orders(S) ==
    {o \in [1..Cardinality(S) -> S] : \A x \in S : \E i \in DOMAIN o : o[i] = x}

(***************************************************************************)
(* check_if_transpilation_needed(), lines 23-41, on the directory src/.    *)
(***************************************************************************)
TiesAreStale(dir) ==
    LET src_files == glob(dir, "cn") \cup glob(dir, "cnm")
        generated_files == glob(dir, "cpp") \cup glob(dir, "h")
    IN  IF src_files = {} THEN FALSE
        ELSE IF generated_files = {} THEN TRUE
        ELSE Max({dir[f].mtime : f \in src_files})
                 >= Min({dir[f].mtime : f \in generated_files})

GeneratedTestedFirst(dir) ==
    LET src_files == glob(dir, "cn") \cup glob(dir, "cnm")
        generated_files == glob(dir, "cpp") \cup glob(dir, "h")
    IN  IF generated_files = {} THEN TRUE
        ELSE IF src_files = {} THEN FALSE
        ELSE Max({dir[f].mtime : f \in src_files})
                 > Min({dir[f].mtime : f \in generated_files})

NewestAgainstNewest(dir) ==
    LET src_files == glob(dir, "cn") \cup glob(dir, "cnm")
        generated_files == glob(dir, "cpp") \cup glob(dir, "h")
    IN  IF src_files = {} THEN FALSE
        ELSE IF generated_files = {} THEN TRUE
        ELSE Max({dir[f].mtime : f \in src_files})
                 > Max({dir[f].mtime : f \in generated_files})

check_if_transpilation_needed(dir) ==
    LET src_files == glob(dir, "cn") \cup glob(dir, "cnm")
        generated_files == glob(dir, "cpp") \cup glob(dir, "h")
    IN  IF src_files = {} THEN FALSE
        ELSE IF generated_files = {} THEN TRUE
        ELSE LET newest_src_time == Max({dir[f].mtime : f \in src_files})
                 oldest_gen_time == Min({dir[f].mtime : f \in generated_files})
             IN  newest_src_time > oldest_gen_time

(***************************************************************************)
(* The child processes and run_command(), lines 15-21.                     *)
(***************************************************************************)
\* Exit statuses of the shell that subprocess.run(cmd, shell=True) starts:
\* 0, a failure of the tool, and 127 when the shell cannot find the tool.
ExitCodes == {0, 1, 127}

\* The two output streams of a child.
Streams == {[out |-> "", err |-> ""], [out |-> "out", err |-> "err"]}

\* What subprocess.run can meet: the child could not be started at all
\* (spawned = FALSE), or it ran and ended with the shell's exit status, the
\* shell having started the tool or not, and the text on the two streams.
ChildExits ==
    {r \in [spawned : {TRUE}, code : ExitCodes, started : BOOLEAN,
            out : {"", "out"}, err : {"", "err"}] :
        /\ (r.code = 127) = ~r.started
        /\ [out |-> r.out, err |-> r.err] \in Streams}

SpawnFailed == [spawned |-> FALSE, code |-> -1, started |-> FALSE, out |-> "", err |-> ""]

\* subprocess.run(..., check=True, capture_output=True, text=True), line 18,
\* for a child that ended as r: the CompletedProcess, or the exception raised.
subprocess_run(r) ==
    [raised |-> IF ~r.spawned THEN "OSError"
                ELSE IF r.code # 0 THEN "CalledProcessError"
                ELSE "none",
     stdout |-> r.out, stderr |-> r.err]

\* run_command without its "except CalledProcessError".
run_command_LetsFailureThrough(r) ==
    LET result == subprocess_run(r)
    IN  [raised |-> result.raised, success |-> result.raised = "none",
         stdout |-> result.stdout, stderr |-> result.stderr]

\* run_command with "except Exception" in place of "except CalledProcessError".
run_command_CatchesAll(r) ==
    LET result == subprocess_run(r)
    IN  [raised |-> "none", success |-> result.raised = "none",
         stdout |-> result.stdout, stderr |-> result.stderr]

\* run_command(cmd), lines 15-21, for a child that ended as r: the exception
\* it lets through ("none" when it returns) and the tuple it returns.
run_command(r) ==
    LET result == subprocess_run(r)
    IN  IF result.raised = "none"
        THEN [raised |-> "none", success |-> TRUE,
              stdout |-> result.stdout, stderr |-> result.stderr]
        ELSE IF result.raised = "CalledProcessError"
        THEN [raised |-> "none", success |-> FALSE,
              stdout |-> result.stdout, stderr |-> result.stderr]
        ELSE [raised |-> result.raised, success |-> FALSE,
              stdout |-> "", stderr |-> ""]

(***************************************************************************)
(* Exceptions: "except Exception" (line 83) takes the subclasses of        *)
(* Exception; SystemExit, raised by sys.exit, is none of them.             *)
(***************************************************************************)
Exceptions == {"OSError", "CalledProcessError"}

\* A bare "except:" at line 83.
except_Everything(e) == TRUE

except_Exception(e) == e \in Exceptions

(***************************************************************************)
(* The transpiler (stage 2) writes into generated/.                        *)
(***************************************************************************)
GenNames == {"a.cpp", "c.cpp", "b.h", "x.txt"}

\* What one execution writes: for each name a content, or 0 for "not written".
Writes == [GenNames -> {0} \cup Contents]
NoWrites == [n \in GenNames |-> 0]

Written(g, W, t) ==
    [exists |-> g.exists \/ \E n \in GenNames : W[n] # 0,
     files |-> [n \in Names |->
                  IF n \in GenNames /\ W[n] # 0 THEN File(W[n], t) ELSE g.files[n]]]

\* The clock when the transpiler has run: the time of the files it wrote.
Later == {t \in Times : now =< t /\ t =< now + 1}

(***************************************************************************)
(* main(), lines 43-86.                                                    *)
(***************************************************************************)
Line(tag) == <<"print", tag>>

\* The answers of the environment, as env records them.
Spawned(spawned) == <<"spawn", spawned>>
Exited(r, W) == <<"exit", r, W>>
Scanned(order) == <<"glob", order>>
Copying(fault) == <<"copy", fault>>

\* "success, stdout, stderr = run_command(...)" at lines 54 and 62, for a child
\* that ended as r: the assignment, or the exception run_command lets through.
Assigned(r, next) ==
    LET res == run_command(r)
    IN  IF res.raised = "none"
        THEN /\ success' = res.success
             /\ stdout' = res.stdout
             /\ stderr' = res.stderr
             /\ pc' = next
             /\ exc' = exc
        ELSE /\ exc' = res.raised
             /\ pc' = "except"
             /\ UNCHANGED <<success, stdout, stderr>>

\* Lines 44-54 with the staleness verdict acted upon: a src/ that needs no
\* transpilation skips both stages and the staging.
Compile_IfNeeded(spawned) ==
    /\ pc = "main"
    /\ IF check_if_transpilation_needed(src)
       THEN /\ events' = events \o <<Line("starting"), Line("compiling"), <<"run", "tsc">>>>
            /\ env' = Append(env, Spawned(spawned))
            /\ IF spawned
               THEN pc' = "tsc" /\ UNCHANGED <<success, stdout, stderr, exc>>
               ELSE Assigned(SpawnFailed, "L56")
       ELSE /\ events' = Append(events, Line("starting"))
            /\ pc' = "L82"
            /\ UNCHANGED <<env, success, stdout, stderr, exc>>
    /\ UNCHANGED <<src, generated, now, status, patterns, todo, src0, run, prev,
                   prevSrc, verdict>>

\* Lines 44-54: the first prints, and run_command starts the compiler.
Compile(spawned) ==
    /\ pc = "main"
    /\ events' = events \o <<Line("starting"), Line("compiling"), <<"run", "tsc">>>>
    /\ env' = Append(env, Spawned(spawned))
    /\ IF spawned
       THEN pc' = "tsc" /\ UNCHANGED <<success, stdout, stderr, exc>>
       ELSE Assigned(SpawnFailed, "L56")
    /\ UNCHANGED <<src, generated, now, status, patterns, todo, src0, run, prev,
                   prevSrc, verdict>>

\* Line 54: the compiler ends as r and run_command returns.
TscExit(r) ==
    /\ pc = "tsc"
    /\ events' = Append(events, <<"exit", "tsc", r.code>>)
    /\ env' = Append(env, Exited(r, NoWrites))
    /\ Assigned(r, "L56")
    /\ UNCHANGED <<src, generated, now, status, patterns, todo, src0, run, prev,
                   prevSrc, verdict>>

\* Lines 56-58 without the sys.exit(1).
CheckCompile_GoesOn ==
    /\ pc = "L56"
    /\ events' = IF ~success THEN Append(events, Line("compile_failed")) ELSE events
    /\ pc' = "L61"
    /\ UNCHANGED <<src, generated, now, success, stdout, stderr, exc, status, patterns,
                   todo, env, src0, run, prev, prevSrc, verdict>>

\* Lines 56-58 with one retry: a failed compilation is started once more.
CheckCompile_Retries ==
    /\ pc = "L56"
    /\ IF ~success /\ Len(SelectSeq(events, LAMBDA e : e[1] = "run")) < 2
       THEN /\ events' = events \o <<Line("compile_failed"), <<"run", "tsc">>>>
            /\ pc' = "tsc"
            /\ exc' = exc
       ELSE IF ~success
       THEN /\ events' = Append(events, Line("compile_failed"))
            /\ exc' = "SystemExit"
            /\ pc' = "except"
       ELSE /\ pc' = "L61"
            /\ UNCHANGED <<events, exc>>
    /\ UNCHANGED <<src, generated, now, success, stdout, stderr, status, patterns,
                   todo, env, src0, run, prev, prevSrc, verdict>>

\* Lines 56-58.
CheckCompile ==
    /\ pc = "L56"
    /\ IF ~success
       THEN /\ events' = Append(events, Line("compile_failed"))
            /\ exc' = "SystemExit"
            /\ pc' = "except"
       ELSE /\ pc' = "L61"
            /\ UNCHANGED <<events, exc>>
    /\ UNCHANGED <<src, generated, now, success, stdout, stderr, status, patterns,
                   todo, env, src0, run, prev, prevSrc, verdict>>

\* Lines 61-62: run_command starts node on the compiled script.
Transpile(spawned) ==
    /\ pc = "L61"
    /\ events' = events \o <<Line("transpiling"), <<"run", "node">>>>
    /\ env' = Append(env, Spawned(spawned))
    /\ IF spawned
       THEN pc' = "node" /\ UNCHANGED <<success, stdout, stderr, exc>>
       ELSE Assigned(SpawnFailed, "L64")
    /\ UNCHANGED <<src, generated, now, status, patterns, todo, src0, run, prev,
                   prevSrc, verdict>>

\* Line 62 with subprocess.run(..., timeout=...): the wait for the transpiler
\* ends with its exit, or with a TimeoutExpired while it still runs.
NodeExit_OrTimeout(r, W, t) ==
    /\ pc = "node"
    /\ r.started \/ W = NoWrites
    /\ \/ /\ now' = t
          /\ generated' = Written(generated, W, t)
          /\ events' = Append(events, <<"exit", "node", r.code>>)
          /\ env' = Append(env, Exited(r, W))
          /\ Assigned(r, "L64")
       \/ /\ W = NoWrites /\ r.code = 0 /\ t = now
          /\ exc' = "TimeoutExpired"
          /\ pc' = "except"
          /\ UNCHANGED <<generated, now, events, env, success, stdout, stderr>>
    /\ UNCHANGED <<src, status, patterns, todo, src0, run, prev, prevSrc, verdict>>

\* Line 62: the transpiler has written W into generated/ and ends as r.
NodeExit(r, W, t) ==
    /\ pc = "node"
    /\ r.started \/ W = NoWrites
    /\ now' = t
    /\ generated' = Written(generated, W, t)
    /\ events' = Append(events, <<"exit", "node", r.code>>)
    /\ env' = Append(env, Exited(r, W))
    /\ Assigned(r, "L64")
    /\ UNCHANGED <<src, status, patterns, todo, src0, run, prev, prevSrc, verdict>>

\* Lines 64-68 without the sys.exit(1).
CheckTranspile_GoesOn ==
    /\ pc = "L64"
    /\ events' = IF ~success THEN Append(events, Line("transpile_failed"))
                  ELSE Append(events, Line("stdout"))
    /\ pc' = "L74"
    /\ UNCHANGED <<src, generated, now, success, stdout, stderr, exc, status, patterns,
                   todo, env, src0, run, prev, prevSrc, verdict>>

\* Lines 64-68.
CheckTranspile ==
    /\ pc = "L64"
    /\ IF ~success
       THEN /\ events' = Append(events, Line("transpile_failed"))
            /\ exc' = "SystemExit"
            /\ pc' = "except"
       ELSE /\ events' = Append(events, Line("stdout"))
            /\ pc' = "L74"
            /\ exc' = exc
    /\ UNCHANGED <<src, generated, now, success, stdout, stderr, status, patterns,
                   todo, env, src0, run, prev, prevSrc, verdict>>

\* Lines 71-76 with the "*.h" pattern forgotten.
CheckGenerated_CppOnly ==
    /\ pc = "L74"
    /\ IF generated.exists
       THEN /\ events' = Append(events, Line("copying"))
            /\ patterns' = <<"cpp">>
            /\ pc' = "L76"
       ELSE /\ pc' = "L82"
            /\ UNCHANGED <<events, patterns>>
    /\ UNCHANGED <<src, generated, now, success, stdout, stderr, exc, status, todo,
                   env, src0, run, prev, prevSrc, verdict>>

\* Lines 71-76 without the test of line 74: a missing generated/ is an error.
CheckGenerated_NoTest ==
    /\ pc = "L74"
    /\ events' = Append(events, Line("copying"))
    /\ IF generated.exists
       THEN /\ patterns' = <<"cpp", "h">>
            /\ pc' = "L76"
            /\ exc' = exc
       ELSE /\ exc' = "OSError"
            /\ pc' = "except"
            /\ UNCHANGED patterns
    /\ UNCHANGED <<src, generated, now, success, stdout, stderr, status, todo,
                   env, src0, run, prev, prevSrc, verdict>>

\* Lines 71-76: staging is entered when generated/ exists.
\* Lines 74-75 preceded by a clean-up: the *.cpp and *.h files of src/ are
\* removed before the new ones are copied.
CheckGenerated_CleansFirst ==
    /\ pc = "L74"
    /\ IF generated.exists
       THEN /\ events' = Append(events, Line("copying"))
            /\ patterns' = <<"cpp", "h">>
            /\ src' = [n \in Names |-> IF Suffix[n] \in {"cpp", "h"} THEN NoFile ELSE src[n]]
            /\ pc' = "L76"
       ELSE /\ pc' = "L82"
            /\ UNCHANGED <<events, patterns, src>>
    /\ UNCHANGED <<generated, now, success, stdout, stderr, exc, status, todo,
                   env, src0, run, prev, prevSrc, verdict>>

CheckGenerated ==
    /\ pc = "L74"
    /\ IF generated.exists
       THEN /\ events' = Append(events, Line("copying"))
            /\ patterns' = <<"cpp", "h">>
            /\ pc' = "L76"
       ELSE /\ pc' = "L82"
            /\ UNCHANGED <<events, patterns>>
    /\ UNCHANGED <<src, generated, now, success, stdout, stderr, exc, status, todo,
                   env, src0, run, prev, prevSrc, verdict>>

\* The orders in which generated_dir.glob(pattern) may yield its paths.
Scans ==
    IF patterns = <<>> THEN {} ELSE Orders(glob(generated.files, Head(patterns)))

\* Lines 76-77: the next pattern, and generated_dir.glob(pattern) in some order.
NextPattern(order) ==
    /\ pc = "L76"
    /\ patterns # <<>>
    /\ order \in Scans
    /\ todo' = order
    /\ env' = Append(env, Scanned(order))
    /\ patterns' = Tail(patterns)
    /\ pc' = "L77"
    /\ UNCHANGED <<src, generated, now, success, stdout, stderr, exc, status, events,
                   src0, run, prev, prevSrc, verdict>>

\* Line 76: no pattern is left.
PatternsDone ==
    /\ pc = "L76"
    /\ patterns = <<>>
    /\ pc' = "L82"
    /\ UNCHANGED <<src, generated, now, success, stdout, stderr, exc, status, patterns,
                   todo, events, env, src0, run, prev, prevSrc, verdict>>

\* A copy that leaves a file already in src/ alone.
copy2_KeepsExisting(dir, name) ==
    IF dir[name] # NoFile THEN dir ELSE [dir EXCEPT ![name] = generated.files[name]]

\* shutil.copy2(file_path, dest_path), line 79: content and modification time.
copy2(dir, name) == [dir EXCEPT ![name] = generated.files[name]]

\* Lines 77-80 as a transaction: a failed copy puts back what src/ held of
\* the files copied so far.
CopyFile_RollsBack(fault) ==
    /\ pc = "L77"
    /\ todo # <<>>
    /\ env' = Append(env, Copying(fault))
    /\ IF fault = "none"
       THEN /\ src' = copy2(src, Head(todo))
            /\ events' = Append(events, <<"copied", Head(todo)>>)
            /\ todo' = Tail(todo)
            /\ pc' = "L77"
            /\ exc' = exc
       ELSE /\ src' = [n \in Names |->
                         IF \E i \in DOMAIN events : events[i] = <<"copied", n>>
                         THEN src0[n] ELSE src[n]]
            /\ exc' = "OSError"
            /\ pc' = "except"
            /\ UNCHANGED <<events, todo>>
    /\ UNCHANGED <<generated, now, success, stdout, stderr, status, patterns, src0,
                   run, prev, prevSrc, verdict>>

\* Lines 77-80: one file is copied, or the copy fails: before it has opened
\* the destination ("open") or while it writes it ("write").
CopyFile(fault) ==
    /\ pc = "L77"
    /\ todo # <<>>
    /\ env' = Append(env, Copying(fault))
    /\ IF fault = "none"
       THEN /\ src' = copy2(src, Head(todo))
            /\ events' = Append(events, <<"copied", Head(todo)>>)
            /\ todo' = Tail(todo)
            /\ pc' = "L77"
            /\ exc' = exc
       ELSE /\ src' = IF fault = "write"
                      THEN [src EXCEPT ![Head(todo)] = Truncated(now)]
                      ELSE src
            /\ exc' = "OSError"
            /\ pc' = "except"
            /\ UNCHANGED <<events, todo>>
    /\ UNCHANGED <<generated, now, success, stdout, stderr, status, patterns, src0,
                   run, prev, prevSrc, verdict>>

\* Line 77: the pattern's files are all copied.
FilesDone ==
    /\ pc = "L77"
    /\ todo = <<>>
    /\ pc' = "L76"
    /\ UNCHANGED <<src, generated, now, success, stdout, stderr, exc, status, patterns,
                   todo, events, env, src0, run, prev, prevSrc, verdict>>

\* Line 82, and the script ends: main() returns and the process exits 0.
Completed ==
    /\ pc = "L82"
    /\ events' = Append(events, Line("completed"))
    /\ status' = 0
    /\ pc' = "done"
    /\ UNCHANGED <<src, generated, now, success, stdout, stderr, exc, patterns, todo,
                   env, src0, run, prev, prevSrc, verdict>>

\* Lines 83-86 followed by a sys.exit(1): a caught Exception fails the run.
Handler_Fails ==
    /\ pc = "except"
    /\ events' = IF except_Exception(exc) THEN Append(events, Line("error"))
                 ELSE Append(events, <<"uncaught", exc>>)
    /\ status' = 1
    /\ pc' = "done"
    /\ UNCHANGED <<src, generated, now, success, stdout, stderr, exc, patterns, todo,
                   env, src0, run, prev, prevSrc, verdict>>

\* Lines 83-86: an Exception is printed with its trace and main() returns, so
\* the process exits 0; SystemExit is not an Exception and ends the process
\* with the status given to sys.exit (1 at lines 58 and 66).
\* Lines 83-86 with the confirmation of line 82 printed after them as well,
\* as in a finally clause.
Handler_ThenConfirms ==
    /\ pc = "except"
    /\ IF except_Exception(exc)
       THEN /\ events' = events \o <<Line("error"), Line("completed")>>
            /\ status' = 0
       ELSE /\ events' = events \o <<(<<"uncaught", exc>>), Line("completed")>>
            /\ status' = 1
    /\ pc' = "done"
    /\ UNCHANGED <<src, generated, now, success, stdout, stderr, exc, patterns, todo,
                   env, src0, run, prev, prevSrc, verdict>>

Handler ==
    /\ pc = "except"
    /\ IF except_Exception(exc)
       THEN /\ events' = Append(events, Line("error"))
            /\ status' = 0
       ELSE /\ events' = Append(events, <<"uncaught", exc>>)
            /\ status' = 1
    /\ pc' = "done"
    /\ UNCHANGED <<src, generated, now, success, stdout, stderr, exc, patterns, todo,
                   env, src0, run, prev, prevSrc, verdict>>

(***************************************************************************)
(* One run of the script, from any src/ and generated/.                    *)
(***************************************************************************)
\* The files present before the run: written at time 0.
InitFiles == {File(1, 0)}

Fresh ==
    /\ now = 0
    /\ success = FALSE
    /\ stdout = ""
    /\ stderr = ""
    /\ exc = "none"
    /\ status = -1
    /\ patterns = <<>>
    /\ todo = <<>>
    /\ events = <<>>
    /\ env = <<>>
    /\ run = 1
    /\ prev = <<>>
    /\ verdict = <<>>

Init ==
    /\ Fresh
    /\ pc = "main"
    /\ src \in Dirs({"m.cn", "a.cpp", "b.h"}, InitFiles)
    /\ generated \in {NoDir} \cup
           {[exists |-> TRUE, files |-> d] : d \in Dirs(GenNames, InitFiles)}
    /\ src0 = src
    /\ prevSrc = src

Next ==
    \/ \E spawned \in BOOLEAN : Compile(spawned)
    \/ \E r \in ChildExits : TscExit(r)
    \/ CheckCompile
    \/ \E spawned \in BOOLEAN : Transpile(spawned)
    \/ pc = "node" /\ \E r \in ChildExits, W \in Writes, t \in Later : NodeExit(r, W, t)
    \/ CheckTranspile
    \/ CheckGenerated
    \/ \E order \in Scans : NextPattern(order)
    \/ PatternsDone
    \/ \E fault \in {"none", "open", "write"} : CopyFile(fault)
    \/ FilesDone
    \/ Completed
    \/ Handler

Spec == Init /\ [][Next]_vars

\* The steps of the script itself, and the ends of its children.
ScriptStep ==
    \/ \E spawned \in BOOLEAN : Compile(spawned)
    \/ CheckCompile
    \/ \E spawned \in BOOLEAN : Transpile(spawned)
    \/ CheckTranspile
    \/ CheckGenerated
    \/ \E order \in Scans : NextPattern(order)
    \/ PatternsDone
    \/ \E fault \in {"none", "open", "write"} : CopyFile(fault)
    \/ FilesDone
    \/ Completed
    \/ Handler

ChildExit ==
    \/ \E r \in ChildExits : TscExit(r)
    \/ pc = "node" /\ \E r \in ChildExits, W \in Writes, t \in Later : NodeExit(r, W, t)

\* One run in which the interpreter keeps executing the script and every
\* child that was started ends: subprocess.run (line 18) then returns.
InitTerminates ==
    /\ Fresh
    /\ pc = "main"
    /\ src = [EmptyDir EXCEPT !["m.cn"] = File(1, 0), !["a.cpp"] = File(1, 0)]
    /\ generated = NoDir
    /\ src0 = src
    /\ prevSrc = src

SpecTerminates ==
    InitTerminates /\ [][Next]_vars /\ WF_vars(ScriptStep) /\ WF_vars(ChildExit)

(***************************************************************************)
(* The script run again and again, the environment answering each run as   *)
(* it answered the one before: the same outcome of each child, the same    *)
(* files written by the transpiler, the same order of each directory scan  *)
(* and the same outcome of each copy.  The clock alone moves on.           *)
(***************************************************************************)
Rerun ==
    /\ pc = "done"
    /\ run < MaxRuns
    /\ run' = run + 1
    /\ prev' = env
    /\ prevSrc' = src
    /\ src0' = src
    /\ pc' = "main"
    /\ success' = FALSE
    /\ stdout' = ""
    /\ stderr' = ""
    /\ exc' = "none"
    /\ status' = -1
    /\ patterns' = <<>>
    /\ todo' = <<>>
    /\ events' = <<>>
    /\ env' = <<>>
    /\ UNCHANGED <<src, generated, now, verdict>>

\* e is what the environment answered at this point of the run before.
Same(e) ==
    \/ run = 1
    \/ Len(env) < Len(prev) /\ prev[Len(env) + 1] = e

\* The first run starts in a project that has no generated/ yet and whose
\* src/ holds an a.cpp of an earlier build.
InitRerun ==
    /\ Fresh
    /\ pc = "main"
    /\ src = [EmptyDir EXCEPT !["a.cpp"] = File(1, 0)]
    /\ generated = NoDir
    /\ src0 = src
    /\ prevSrc = src

NextRerun ==
    \/ \E spawned \in BOOLEAN : Same(Spawned(spawned)) /\ Compile(spawned)
    \/ \E r \in ChildExits : Same(Exited(r, NoWrites)) /\ TscExit(r)
    \/ CheckCompile
    \/ \E spawned \in BOOLEAN : Same(Spawned(spawned)) /\ Transpile(spawned)
    \/ pc = "node" /\ \E r \in ChildExits, W \in Writes :
          Same(Exited(r, W)) /\ \E t \in Later : NodeExit(r, W, t)
    \/ CheckTranspile
    \/ CheckGenerated
    \/ \E order \in Scans : Same(Scanned(order)) /\ NextPattern(order)
    \/ PatternsDone
    \/ \E fault \in {"none", "open", "write"} : Same(Copying(fault)) /\ CopyFile(fault)
    \/ FilesDone
    \/ Completed
    \/ Handler
    \/ Rerun

SpecRerun == InitRerun /\ [][NextRerun]_vars

(***************************************************************************)
(* check_if_transpilation_needed() called on any src/.                     *)
(***************************************************************************)
CallCheck ==
    /\ pc = "check"
    /\ verdict' = <<check_if_transpilation_needed(src)>>
    /\ pc' = "checked"
    /\ UNCHANGED <<src, generated, now, success, stdout, stderr, exc, status,
                   patterns, todo, events, env, src0, run, prev, prevSrc>>

InitDetector ==
    /\ Fresh
    /\ pc = "check"
    /\ src \in Dirs({"m.cn", "n.cnm", "a.cpp", "b.h"}, {File(1, t) : t \in Times})
    /\ generated = NoDir
    /\ src0 = src
    /\ prevSrc = src

NextDetector == CallCheck

\* check_if_transpilation_needed() called once a run has ended.
CheckAfter ==
    /\ pc = "done"
    /\ verdict' = <<check_if_transpilation_needed(src)>>
    /\ pc' = "checked"
    /\ UNCHANGED <<src, generated, now, success, stdout, stderr, exc, status,
                   patterns, todo, events, env, src0, run, prev, prevSrc>>

\* The places in events where the user saved the source artifact m.cn.
Edits == {i \in DOMAIN events : events[i][1] = "edit"}

\* The user saves m.cn with another content at time t, while a child of the
\* run is at work: its st_mtime (line 35) becomes t.
Edit(t) ==
    /\ pc \in {"tsc", "node"}
    /\ Cardinality(Edits) < MaxEdits
    /\ src' = [src EXCEPT !["m.cn"] = File((src["m.cn"].content % MaxContent) + 1, t)]
    /\ now' = t
    /\ events' = Append(events, <<"edit", "m.cn">>)
    /\ UNCHANGED <<generated, success, stdout, stderr, exc, status, patterns, todo,
                   env, src0, run, prev, prevSrc, verdict, pc>>

\* A run in a project with one source artifact, with or without an a.cpp of
\* an earlier build, and with or without a generated/ of an earlier build.
InitBuild ==
    /\ Fresh
    /\ pc = "main"
    /\ src \in {[EmptyDir EXCEPT !["m.cn"] = File(1, 0)],
                [EmptyDir EXCEPT !["m.cn"] = File(1, 0), !["a.cpp"] = File(1, 0)]}
    /\ generated \in {NoDir,
                      [exists |-> TRUE, files |-> [EmptyDir EXCEPT !["b.h"] = File(1, 0)]]}
    /\ src0 = src
    /\ prevSrc = src

NextBuild ==
    \/ Next
    \/ \E t \in Later : Edit(t)
    \/ CheckAfter

SpecBuild == InitBuild /\ [][NextBuild]_vars

SpecDetector == InitDetector /\ [][NextDetector]_vars

(***************************************************************************)
(* What a run has done, read from events and env.                          *)
(***************************************************************************)
\* The positions of events at which run_command(cmd) was called.
Ran(cmd) == {i \in DOMAIN events : events[i][1] = "run" /\ events[i][2] = cmd}

\* The exit statuses with which the child of cmd ended in this run.
Codes(cmd) ==
    {events[i][3] :
        i \in {j \in DOMAIN events : events[j][1] = "exit" /\ events[j][2] = cmd}}

Failed(cmd) == \E c \in Codes(cmd) : c # 0
Succeeded(cmd) == 0 \in Codes(cmd)

\* The names of the files this run has copied into src/.
Copied == {events[i][2] : i \in {j \in DOMAIN events : events[j][1] = "copied"}}

Printed(tag) == \E i \in DOMAIN events : events[i][1] = "print" /\ events[i][2] = tag

\* The files of generated/ that match *.cpp or *.h.
Matching == {n \in Names : generated.files[n] # NoFile /\ Suffix[n] \in {"cpp", "h"}}

\* The child has ended and main() has done nothing since; and that end.
JustExited ==
    /\ pc \in {"L56", "L64", "except"}
    /\ events[Len(events)][1] = "exit"
LastExit == env[Len(env)][2]

\* C1: when the stage-1 command exits non-zero, stage 2 is never invoked, no
\* file is copied into src/ (src/ stays as the run found it), nothing of the
\* later steps is entered, and the process exits with status 1.
C1_CompileFailureStops ==
    Failed("tsc") =>
        /\ Ran("node") = {}
        /\ Copied = {}
        /\ src = src0
        /\ pc \in {"L56", "except", "done"}
        /\ pc = "done" => status = 1

\* C1's case: stage 1 failed, the process has exited, and generated/ held a
\* matching file that src/ does not have.
C1_Witness ==
    /\ pc = "done"
    /\ Failed("tsc")
    /\ \E n \in Matching : src[n] # generated.files[n]

\* C2: when stage 1 succeeds and the stage-2 command exits non-zero, staging is
\* never entered, no file is copied into src/, and the process exits with
\* status 1.
C2_TranspileFailureStops ==
    (Succeeded("tsc") /\ Failed("node")) =>
        /\ ~Printed("copying")
        /\ Copied = {}
        /\ src = src0
        /\ pc \in {"L64", "except", "done"}
        /\ pc = "done" => status = 1

\* C2's case: stage 2 failed after it had written a matching file that src/
\* does not have, and the process has exited.
C2_Witness ==
    /\ pc = "done"
    /\ Succeeded("tsc")
    /\ Failed("node")
    /\ \E n \in Matching : generated.files[n].mtime = now /\ src[n] # generated.files[n]

\* C3: the exit status is 1 exactly when one of the two stages exited non-zero
\* and is 0 in every other run that ends, a caught exception included.
C3_ExitStatus ==
    pc = "done" =>
        /\ status \in {0, 1}
        /\ status = 1 <=> (Failed("tsc") \/ Failed("node"))

\* C3's case: an exception was caught at the top level and the process exited.
C3_Witness ==
    /\ pc = "done"
    /\ exc \in Exceptions
    /\ Printed("error")
    /\ status = 0

C5_NoGeneratedIsNoError ==
    (Succeeded("tsc") /\ Succeeded("node") /\ ~generated.exists) =>
        /\ Copied = {}
        /\ src = src0
        /\ exc = "none"
        /\ ~Printed("error")
        /\ pc = "done" => (status = 0 /\ Printed("completed"))

\* C5's case: both stages succeeded, generated/ is absent, the process exited.
C5_Witness ==
    /\ pc = "done"
    /\ Succeeded("tsc")
    /\ Succeeded("node")
    /\ ~generated.exists

\* The names and contents of a directory.
ContentOf(dir) == [n \in Names |-> dir[n].content]

\* C6: a copied file replaces the file of the same name in src/, and a run
\* that the environment answers as it answered the run before leaves in
\* src/ the names and contents that run left.
C6_Idempotent ==
    /\ \A n \in Copied : src[n] = generated.files[n]
    /\ (run > 1 /\ pc = "done" /\ env = prev) => ContentOf(src) = ContentOf(prevSrc)

\* C6's case: the second run has ended after copying over the a.cpp that the
\* first run had put in place of the a.cpp it found.
C6_Witness ==
    /\ run = 2
    /\ pc = "done"
    /\ env = prev
    /\ "a.cpp" \in Copied
    /\ src0["a.cpp"] # NoFile
    /\ src["a.cpp"].content # 1

\* The source artifacts and the generated artifacts of src/.
S == {n \in Names : src[n] # NoFile /\ Suffix[n] \in {"cn", "cnm"}}
G == {n \in Names : src[n] # NoFile /\ Suffix[n] \in {"cpp", "h"}}

\* C7: for non-empty S and G the verdict is true exactly when the newest
\* source artifact is strictly newer than the oldest generated artifact.
C7_StrictlyNewer ==
    (pc = "checked" /\ S # {} /\ G # {}) =>
        (verdict = <<TRUE>> <=>
            \E s \in S, g \in G :
                /\ \A s2 \in S : src[s].mtime >= src[s2].mtime
                /\ \A g2 \in G : src[g].mtime =< src[g2].mtime
                /\ src[s].mtime > src[g].mtime)

\* C7's case: the newest source is exactly as old as the oldest generated
\* file, which is not the only generated file, and the verdict is false.
C7_Witness ==
    /\ pc = "checked"
    /\ verdict = <<FALSE>>
    /\ \E s \in S, g \in G :
          /\ \A s2 \in S : src[s].mtime >= src[s2].mtime
          /\ \A g2 \in G : src[g].mtime =< src[g2].mtime
          /\ src[s].mtime = src[g].mtime
          /\ \E g2 \in G : src[g2].mtime > src[g].mtime

\* C8: the verdict is false whenever S is empty, whatever G is, and true
\* whenever S is non-empty and G is empty.
C8_EmptySets ==
    pc = "checked" =>
        /\ S = {} => verdict = <<FALSE>>
        /\ (S # {} /\ G = {}) => verdict = <<TRUE>>

\* C8's case: both sets are empty and the verdict is false.
C8_Witness ==
    /\ pc = "checked"
    /\ S = {}
    /\ G = {}
    /\ verdict = <<FALSE>>

\* C9: run_command returns success = TRUE exactly when the child exited with
\* status zero; for a non-zero exit it raises nothing and returns FALSE with
\* the child's stdout and stderr.
C9_SuccessIffZero ==
    JustExited =>
        /\ exc = "none"
        /\ pc \in {"L56", "L64"}
        /\ success = (LastExit.code = 0)
        /\ stdout = LastExit.out
        /\ stderr = LastExit.err

\* C9's case: a child has exited non-zero with text on its streams.
C9_Witness ==
    /\ JustExited
    /\ LastExit.code # 0
    /\ ~success
    /\ stdout = "out"
    /\ stderr = "err"

\* The child of a stage could not be created at all.
SpawnFailure ==
    \E i \in DOMAIN env : env[i][1] = "spawn" /\ ~env[i][2]

\* The shell ran but could not start the tool of a stage.
ToolMissing ==
    \E i \in DOMAIN env : env[i][1] = "exit" /\ ~env[i][2].started

\* An Exception left main() uncaught.
Uncaught ==
    \E i \in DOMAIN events : events[i][1] = "uncaught" /\ events[i][2] \in Exceptions

\* C10 as stated: a tool that cannot be started is never an ordinary
\* success = FALSE result; it propagates uncaught and the run does not end
\* as a successful pipeline.
C10_AsStated ==
    (SpawnFailure \/ ToolMissing) =>
        /\ pc \notin {"L56", "L64"}
        /\ pc = "done" => (Uncaught /\ ~Printed("completed"))

\* C10, amended: when the child cannot be created, run_command returns no
\* result; the exception reaches the handler of main(), which catches it: no
\* later step runs, no success line is printed and the exit status is 0.
\* When the shell runs but cannot start the tool, the end of the child is an
\* ordinary success = FALSE result and the exit status is 1.
C10_StartFailure ==
    /\ SpawnFailure =>
          /\ env[Len(env)][1] = "spawn"
          /\ events[Len(events)] \in {<<"run", "tsc">>, <<"run", "node">>, Line("error")}
          /\ pc \in {"except", "done"}
          /\ exc = "OSError"
          /\ ~Uncaught
          /\ ~Printed("completed")
          /\ pc = "done" => (status = 0 /\ Printed("error"))
    /\ ToolMissing =>
          /\ JustExited => (pc \in {"L56", "L64"} /\ ~success)
          /\ exc \in {"none", "SystemExit"}
          /\ pc = "done" => status = 1

\* C10's case: stage 1 succeeded, the child of stage 2 could not be created,
\* and the process has exited.
C10_Witness ==
    /\ pc = "done"
    /\ Succeeded("tsc")
    /\ Ran("node") # {}
    /\ SpawnFailure
    /\ status = 0

\* The last answer of the environment is the one that raised: a child that
\* could not be created, or a copy that failed.
RaisedLast ==
    /\ env # <<>>
    /\ \/ env[Len(env)][1] = "spawn" /\ ~env[Len(env)][2]
       \/ env[Len(env)][1] = "copy" /\ env[Len(env)][2] # "none"

\* C11: an Exception raised at any step (starting a child, copying a file) is
\* caught by the handler of main() and printed with its trace; nothing is
\* done after the step that raised, no success line is printed, and the
\* process exits with status 0.
C11_ExceptionSwallowed ==
    exc \in Exceptions =>
        /\ pc \in {"except", "done"}
        /\ RaisedLast
        /\ ~Uncaught
        /\ ~Printed("completed")
        /\ pc = "except" => ~Printed("error")
        /\ pc = "done" => (status = 0 /\ events[Len(events)] = Line("error"))

\* C11's case: a copy failed after another file had been copied, the
\* exception was printed and the process has exited.
C11_Witness ==
    /\ pc = "done"
    /\ exc \in Exceptions
    /\ Copied # {}
    /\ Printed("error")
    /\ status = 0

\* The calls of run_command of this run, in order.
IsRun(e) == e[1] = "run"
Invocations == SelectSeq(events, IsRun)

\* The outcomes of the tools of this run, in order: whether the child could
\* be created, and whether it exited with status zero.
IsToolAnswer(a) == a[1] \in {"spawn", "exit"}
ToolOutcomes ==
    LET T == SelectSeq(env, IsToolAnswer)
    IN  [i \in DOMAIN T |->
            IF T[i][1] = "spawn" THEN <<"spawn", T[i][2]>>
            ELSE <<"exit", T[i][2].code = 0>>]

\* The stage invocations and the exit status that the outcomes O of the
\* tools call for; neither src/ nor generated/ is an argument.
InvocationsFor(O) ==
    IF Len(O) >= 2 /\ O[1] = <<"spawn", TRUE>> /\ O[2] = <<"exit", TRUE>>
    THEN <<(<<"run", "tsc">>), (<<"run", "node">>)>>
    ELSE <<(<<"run", "tsc">>)>>

StatusFor(O) == IF \E i \in DOMAIN O : O[i] = <<"exit", FALSE>> THEN 1 ELSE 0

\* C12: every run invokes stage 1, and stage 2 once stage 1 has succeeded,
\* whatever src/ holds; the sequence of stage invocations and the exit status
\* of a run are those its tool outcomes call for, so two runs that differ
\* only in the files and their times invoke the same stages and end alike.
C12_VerdictNotConsulted ==
    /\ pc # "main" => Ran("tsc") # {}
    /\ (Succeeded("tsc") /\ pc \notin {"L56", "L61"}) => Ran("node") # {}
    /\ pc = "done" =>
          /\ Invocations = InvocationsFor(ToolOutcomes)
          /\ status = StatusFor(ToolOutcomes)

\* C12's case: src/ needed no transpilation when the run started (sources no
\* newer than the generated files), and both stages were invoked.
C12_Witness ==
    /\ pc = "done"
    /\ src0["m.cn"] # NoFile
    /\ ~check_if_transpilation_needed(src0)
    /\ Len(Invocations) = 2
    /\ status = 0

\* The places in events where the child of cmd ended, and where a file was
\* copied into src/.
Ended(cmd) == {i \in DOMAIN events : events[i][1] = "exit" /\ events[i][2] = cmd}
Copies == {i \in DOMAIN events : events[i][1] = "copied"}

\* C13: each command is run at most once; the transpiler is started only
\* after the compiler's child has ended, and a file is copied (or a copy
\* attempted) only after the transpiler's child has ended: the order is
\* compile, transpile, stage.
C13_SingleShotSequential ==
    /\ \A cmd \in {"tsc", "node"} : Cardinality(Ran(cmd)) =< 1
    /\ \A i \in Ran("node") : \E j \in Ended("tsc") : j < i
    /\ \A i \in Ran("node") : \E j \in Ran("tsc") : j < i
    /\ \A i \in Copies : \E j \in Ended("node") : j < i
    /\ \A cmd \in {"tsc", "node"} : \A j \in Ended(cmd) : \E i \in Ran(cmd) : i < j
    /\ pc \in {"L76", "L77"} => Ended("node") # {}
    /\ pc = "node" => Ended("tsc") # {}
    /\ pc \in {"tsc", "node"} => Copies = {}

\* C13's case: a run that compiled, transpiled and copied two files.
C13_Witness ==
    /\ pc = "done"
    /\ Ran("tsc") # {} /\ Ran("node") # {}
    /\ Cardinality(Copies) >= 2

\* C14: for non-empty S and G the verdict is true whenever some source
\* artifact is newer than some generated artifact, and the verdict is false
\* only when every generated artifact is at least as new as every source
\* artifact.
C14_Conservative ==
    pc = "checked" =>
        /\ (S # {} /\ G # {} /\ \E s \in S, g \in G : src[s].mtime > src[g].mtime)
               => verdict = <<TRUE>>
        /\ verdict = <<FALSE>> =>
               \A s \in S, g \in G : src[g].mtime >= src[s].mtime

\* C14's case: one source is newer than one generated file while another
\* generated file is newer than every source, and the verdict is true.
C14_Witness ==
    /\ pc = "checked"
    /\ verdict = <<TRUE>>
    /\ \E s \in S, g \in G : src[s].mtime > src[g].mtime
    /\ \E g \in G : \A s \in S : src[g].mtime > src[s].mtime
    /\ \E s \in S : \A g \in G : src[s].mtime =< src[g].mtime

\* shutil.copy2 raised in this run, on the file at the head of todo.
CopyFailed ==
    /\ env # <<>>
    /\ env[Len(env)][1] = "copy"
    /\ env[Len(env)][2] # "none"

\* C15: when the copy of a file fails, the files copied before it stay in
\* src/ as copied, the matching files after it are not copied, and the run
\* ends with exit status 0.
C15_NotTransactional ==
    CopyFailed =>
        /\ pc \in {"except", "done"}
        /\ todo # <<>> /\ Head(todo) \notin Copied
        /\ \A n \in Copied : src[n] = generated.files[n]
        /\ \A n \in Matching \ (Copied \cup {Head(todo)}) : src[n] = src0[n]
        /\ pc = "done" => status = 0

\* C15's case: the run has ended after a failed copy, with a file copied
\* before it that changed src/ and a matching file left uncopied after it.
C15_Witness ==
    /\ pc = "done"
    /\ CopyFailed
    /\ \E n \in Copied : src[n] # src0[n]
    /\ \E n \in Matching \ (Copied \cup {Head(todo)}) : src0[n] # generated.files[n]

\* The children that were started in this run.
Started == {i \in DOMAIN env : env[i] = Spawned(TRUE)}

\* C16: when every child that is started ends, the run ends, with an exit
\* status; main() waits for a child without a timeout: while a child runs
\* the run has no status, and the only step it can take is that child's end,
\* so that a run has ended only if each of its children has.
C16_TerminatesWithChildren ==
    /\ <>(pc = "done" /\ status \in {0, 1})
    /\ [](pc \in {"tsc", "node"} =>
             /\ status = -1
             /\ Cardinality(Started) = Cardinality(Ended("tsc") \cup Ended("node")) + 1)
    /\ [](pc = "done" =>
             Cardinality(Started) = Cardinality(Ended("tsc") \cup Ended("node")))
    /\ [][(pc \in {"tsc", "node"}) =>
             (\E c \in ExitCodes : events' = Append(events, <<"exit", pc, c>>))]_vars

\* C16's case: both children were started and ended, the second one with a
\* failure, and the run has ended with status 1.
C16_Witness ==
    /\ pc = "done"
    /\ Cardinality(Started) = 2
    /\ Failed("node")
    /\ status = 1

\* C17: a run that has ended printed the confirmation of line 82 exactly
\* when both children exited with status zero and nothing was raised, the
\* staging having copied every matching file or been skipped for want of
\* generated/; the confirmation is printed in no run that exits with 1 and in
\* no run in which an exception was caught.
C17_ConfirmationIffSuccess ==
    /\ pc = "done" =>
          (Printed("completed") <=>
              /\ Succeeded("tsc")
              /\ Succeeded("node")
              /\ exc = "none"
              /\ \/ ~generated.exists /\ Copied = {}
                 \/ generated.exists /\ Copied = Matching)
    /\ Printed("completed") =>
          /\ pc = "done"
          /\ status = 0
          /\ exc = "none"
          /\ ~Printed("error")
          /\ ~Uncaught

\* C17's case: a run whose stages both succeeded and whose staging raised
\* on its second file has ended without the confirmation.
C17_Witness ==
    /\ pc = "done"
    /\ Succeeded("tsc") /\ Succeeded("node")
    /\ CopyFailed
    /\ Cardinality(Copied) = 1
    /\ ~Printed("completed")

\* C18: a step of the run changes a file of src/ only by copying over it,
\* or creating it, under the name of a *.cpp or *.h file of generated/: it
\* deletes no file of src/ and changes none of another name; and generated/
\* changes only while the transpiler runs, never during the staging.
C18_StagingFrame ==
    [][/\ \A n \in Names :
             src'[n] # src[n] => (pc = "L77" /\ n \in Matching /\ src'[n] # NoFile)
       /\ generated' # generated => pc = "node"]_vars

\* C18's case: the staging has created one file and overwritten another,
\* and has left alone the source file, a *.cpp of src/ that generated/ does
\* not hold, and the file of generated/ that matches no pattern.
C18_Witness ==
    /\ pc = "done"
    /\ \E n \in Copied : src0[n] = NoFile /\ src[n] = generated.files[n]
    /\ \E n \in Copied : src0[n] # NoFile /\ src[n] # src0[n]
    /\ src0["m.cn"] # NoFile /\ src["m.cn"] = src0["m.cn"]
    /\ \E n \in Names \ Matching :
          Suffix[n] \in {"cpp", "h"} /\ src0[n] # NoFile /\ src[n] = src0[n]
    /\ generated.files["x.txt"] # NoFile /\ src["x.txt"] = NoFile

\* The files the transpiler wrote in this run.
TranspilerWrote ==
    {n \in GenNames : \E i \in DOMAIN env : env[i][1] = "exit" /\ env[i][3][n] # 0}

\* The run ended with the confirmation of line 82; the transpiler wrote
\* every file that generated/ holds; every *.cpp and *.h file of src/ was
\* copied by the run; m.cn was not saved after the transpiler was started.
Fresh_Build ==
    /\ Printed("completed")
    /\ \A n \in Names : generated.files[n] # NoFile => n \in TranspilerWrote
    /\ \A n \in G : n \in Copied
    /\ \A i \in Edits : \E j \in Ran("node") : i < j

\* C19 as stated: after such a run check_if_transpilation_needed() returns
\* false.
C19_AsStated ==
    (pc = "checked" /\ Fresh_Build) => verdict = <<FALSE>>

\* C19: after such a run that left at least one *.cpp or *.h file in src/,
\* check_if_transpilation_needed() returns false.
C19_FreshBuildNotStale ==
    (pc = "checked" /\ Fresh_Build /\ G # {}) => verdict = <<FALSE>>

\* C19's case: m.cn was saved before the transpiler was started, the files
\* the transpiler wrote are exactly as old, they were staged, and the verdict
\* is false.
C19_Witness ==
    /\ pc = "checked"
    /\ Fresh_Build
    /\ Edits # {}
    /\ G # {}
    /\ \E g \in G : src[g].mtime = src["m.cn"].mtime /\ src[g].mtime > 0
    /\ verdict = <<FALSE>>

====
